---- MODULE Spec2Model ----
(***************************************************************************)
(* A model of clanimtk: the animation engine (clanimtk/animation.py, the   *)
(* same code as core.py's Animation), the frame composition helpers of     *)
(* clanimtk/util.py, the render loop animate_cli (clanimtk/cli.py) and the *)
(* two supervisors of clanimtk/util.py; further concatechain on its own,   *)
(* multi_line_frame_generator, get_supervisor and the decorators animate   *)
(* and Annotate of clanimtk/decorator.py.  SpecFault lets the statements   *)
(* of animate_cli raise; SpecLive adds fair scheduling of the threads.     *)
(*                                                                         *)
(* A Python string is a sequence of one-character tokens: "BS" is '\x08',  *)
(* "ESC" is '\033', "\n" is the newline.  A generator is a record holding  *)
(* the items it will yield and how many it has yielded.                    *)
(***************************************************************************)
EXTENDS Integers, Sequences, FiniteSets, TLC

VARIABLES
    anim,      \* the animation instance (an _Animation object)
    inst,      \* "none", "ok", or the error that instantiating it raised
    ops,       \* the direct calls made on the instance, in order
    ret,       \* what the last direct next() or get_erase_frame() returned
    kind,      \* the supervisor of the current run: "sync" or "async"
    sup_pc,    \* where the supervisor's run stands
    outcome,   \* how the work function settled
    result,    \* what run delivered to its caller
    event,     \* the Event of _terminating_event: is it set
    sets,      \* how many times event.set() was called in the current run
    loop_pc,   \* where animate_cli stands on its worker thread
    frame,     \* animate_cli's local variable frame
    draws,     \* frames written by animate_cli in the current run
    out,       \* what animate_cli did in the current run, in order
    runs,      \* supervised calls started so far
    at_settle, \* history: had animate_cli written a frame when the work settled
    at_set,    \* history: where animate_cli stood when event.set() was called
    prev_draws, \* history: frames written by animate_cli in the previous run
    chain,     \* a generator made by a direct call of concatechain
    chain_pc,  \* "none", "live", or "stopped" once its next() raised StopIteration
    yielded,   \* the values that generator has yielded, in order
    ml_args,   \* the arguments of a call of multi_line_frame_generator
    ml_gen,    \* its local variable frame_gen, a concatechain generator
    ml_pc,     \* "none", "created" (body not started), "live", "stopped", or
               \* the error its next() raised
    ml_out,    \* the frames the multi-line generator has yielded, in order
    fobj,      \* a function object: a plain function and the decorators on it
    dec_err,   \* the error that the last decoration raised, "none" if it did not
    sup,       \* what the last call of get_supervisor returned or raised
    call_pc,   \* where a call of fobj stands
    level,     \* the wrapper (0: the plain function) the call is at
    call_res,  \* how the call settled so far
    trace,     \* what the call did, in order: writes, flushes, the function's run
    applied,   \* history: the last decorator applied, with its arguments
    call_args, \* the positional arguments of the call of fobj
    sup_calls, \* the supervisors the call obtained and the arguments it gave them
    func_got   \* what the plain function was called with and how it settled

animVars == <<anim, inst, ops, ret>>
supVars  == <<kind, sup_pc, outcome, result, event, sets, runs, at_settle, at_set,
              prev_draws>>
loopVars == <<loop_pc, frame, draws, out>>
chainVars == <<chain, chain_pc, yielded>>
progVars == <<animVars, supVars, loopVars>>
mlVars   == <<ml_args, ml_gen, ml_pc, ml_out>>
decoVars == <<fobj, dec_err, sup, call_pc, level, call_res, trace, applied,
              call_args, sup_calls, func_got>>
libVars  == <<chainVars, mlVars, decoVars>>
vars     == <<anim, inst, ops, ret, kind, sup_pc, outcome, result, event, sets,
              loop_pc, frame, draws, out, runs, at_settle, at_set, prev_draws,
              chain, chain_pc, yielded, ml_args, ml_gen, ml_pc, ml_out,
              fobj, dec_err, sup, call_pc, level, call_res, trace, applied,
              call_args, sup_calls, func_got>>

\* ------------------------------------------------------------------ bounds
MaxFrames == 2      \* longest frame sequence a frame function yields
MaxWidth  == 2      \* widest frame line
MaxHeight == 2      \* tallest frame
MaxOps    == 5      \* direct calls on one animation instance
MaxDraws  == 2      \* render loop ticks while the work is still executing
MaxRuns   == 2      \* supervised calls on one animation instance
MaxSources == 2     \* generators given to one concatechain call
MaxItems  == 2      \* values a finite source generator yields
MaxPulls  == 3      \* next() calls on one composed generator
MaxRowFrames == 5   \* frames a finite single-line frame function yields
MaxRows   == 3      \* the height argument of multi_line_frame_generator
MaxOffset == 2      \* its offset argument
MaxLayers == 2      \* decorators stacked on one function

\* ------------------------------------------------------------- characters
NL        == "\n"
SPACE     == " "
BACKSPACE == <<"BS">>                 \* cli.py: BACKSPACE = '\x08'
BACKLINE  == <<"ESC", "[", "F">>      \* cli.py: BACKLINE = '\033[F'
Glyphs    == {"a", "b"}               \* visible characters of a frame

\* ---------------------------------------------------------- str operations
RECURSIVE Repeat(_, _)
\* Python's  s * n
Repeat(s, n) == IF n <= 0 THEN <<>> ELSE s \o Repeat(s, n - 1)

RECURSIVE Split(_)
\* Python's  s.split('\n') : the lines of s, <<"">> for the empty string
Split(s) ==
    IF \A i \in 1..Len(s) : s[i] # NL
    THEN <<s>>
    ELSE LET i == CHOOSE j \in 1..Len(s) :
                      s[j] = NL /\ \A k \in 1..(j - 1) : s[k] # NL
         IN  <<SubSeq(s, 1, i - 1)>> \o Split(SubSeq(s, i + 1, Len(s)))

RECURSIVE Join(_, _)
\* Python's  sep.join(parts)
Join(sep, parts) ==
    IF Len(parts) = 0 THEN <<>>
    ELSE IF Len(parts) = 1 THEN parts[1]
    ELSE parts[1] \o sep \o Join(sep, Tail(parts))

\* -------------------------------------------------------------- generators
\* A generator over `items`; cyc = TRUE is itertools.cycle(items).
Gen(items, cyc) == [items |-> items, pos |-> 0, cyc |-> cyc]

GenHasNext(g) == IF g.cyc THEN Len(g.items) > 0 ELSE g.pos < Len(g.items)
GenPeek(g)    == g.items[IF g.cyc THEN (g.pos % Len(g.items)) + 1 ELSE g.pos + 1]
GenAdvance(g) ==
    [g EXCEPT !.pos = IF g.cyc THEN (g.pos + 1) % Len(g.items) ELSE g.pos + 1]

\* util.py: BACKSPACE_GEN = lambda size: itertools.cycle([BACKSPACE * size])
BACKSPACE_GEN(size) == Gen(<<Repeat(BACKSPACE, size)>>, TRUE)
\* util.py: BACKLINE_GEN = lambda lines: itertools.cycle(['\033[F' * (lines - 1)])
BACKLINE_GEN(lines) == Gen(<<Repeat(BACKLINE, lines - 1)>>, TRUE)

\* util.py concatechain: the state of the generator object it returns.
Concatechain(generators, separator) ==
    [generators |-> generators, separator |-> separator, done |-> FALSE]

\* The first source that raises StopIteration in
\*   next_ = [next(gen) for gen in generators]      (0: none does)
FirstExhausted(generators) ==
    IF \A i \in 1..Len(generators) : GenHasNext(generators[i])
    THEN 0
    ELSE CHOOSE i \in 1..Len(generators) :
             /\ ~GenHasNext(generators[i])
             /\ \A j \in 1..(i - 1) : GenHasNext(generators[j])

\* A concatechain that joins what it pulled before a source ran out.
ConcatechainNext_Partial(c) ==
    LET n  == Len(c.generators)
        fe == FirstExhausted(c.generators)
        k  == IF fe = 0 THEN n ELSE fe - 1
        parts == [i \in 1..k |-> GenPeek(c.generators[i])]
    IN  IF c.done
        THEN [ok |-> FALSE, val |-> <<>>, parts |-> <<>>, state |-> c]
        ELSE [ok    |-> k >= 1,
              val   |-> Join(c.separator, parts),
              parts |-> parts,
              state |-> [c EXCEPT !.done = (k = 0),
                                  !.generators =
                                    [i \in 1..n |-> IF i <= k
                                                    THEN GenAdvance(c.generators[i])
                                                    ELSE c.generators[i]]]]

\* A concatechain that looks whether every source has a value before it pulls
\* any, and so stops without advancing a source.
ConcatechainNext_LooksAhead(c) ==
    LET n  == Len(c.generators)
        fe == FirstExhausted(c.generators)
    IN  IF c.done
        THEN [ok |-> FALSE, val |-> <<>>, parts |-> <<>>, state |-> c]
        ELSE IF fe = 0
        THEN LET parts == [i \in 1..n |-> GenPeek(c.generators[i])]
             IN  [ok    |-> TRUE,
                  val   |-> Join(c.separator, parts),
                  parts |-> parts,
                  state |-> [c EXCEPT !.generators =
                                [i \in 1..n |-> GenAdvance(c.generators[i])]]]
        ELSE [ok    |-> FALSE,
              val   |-> <<>>,
              parts |-> <<>>,
              state |-> [c EXCEPT !.done = TRUE]]

\* One next() on a concatechain generator: [ok, val, parts, state].  The sources
\* are advanced in argument order up to the first exhausted one; parts are the
\* values pulled in this step.
ConcatechainNext(c) ==
    LET n  == Len(c.generators)
        fe == FirstExhausted(c.generators)
    IN  IF c.done
        THEN [ok |-> FALSE, val |-> <<>>, parts |-> <<>>, state |-> c]
        ELSE IF fe = 0
        THEN LET parts == [i \in 1..n |-> GenPeek(c.generators[i])]
             IN  [ok    |-> TRUE,
                  val   |-> Join(c.separator, parts),
                  parts |-> parts,
                  state |-> [c EXCEPT !.generators =
                                [i \in 1..n |-> GenAdvance(c.generators[i])]]]
        ELSE [ok    |-> FALSE,
              val   |-> <<>>,
              parts |-> [i \in 1..(fe - 1) |-> GenPeek(c.generators[i])],
              state |-> [c EXCEPT !.done = TRUE,
                                  !.generators =
                                    [i \in 1..n |-> IF i < fe
                                                    THEN GenAdvance(c.generators[i])
                                                    ELSE c.generators[i]]]]

\* itertools.cycle(inner): yields inner's values, saving them, then replays the
\* saved values forever.  none = TRUE stands for Python's None.
Cycle(inner) ==
    [none |-> FALSE, inner |-> inner, saved |-> <<>>, idx |-> 0, replay |-> FALSE]

NoneGenerator ==
    [none |-> TRUE, inner |-> Concatechain(<<>>, <<>>), saved |-> <<>>,
     idx |-> 0, replay |-> FALSE]

\* One next() on the cycle: [ok, val, parts, state]; ok = FALSE is StopIteration.
CycleNext(cy) ==
    LET r == ConcatechainNext(cy.inner)
    IN  IF ~cy.replay /\ r.ok
        THEN [ok |-> TRUE, val |-> r.val, parts |-> r.parts,
              state |-> [cy EXCEPT !.inner = r.state,
                                   !.saved = Append(cy.saved, r.val)]]
        ELSE IF Len(cy.saved) = 0
        THEN [ok |-> FALSE, val |-> <<>>, parts |-> <<>>,
              state |-> [cy EXCEPT !.inner = r.state, !.replay = TRUE]]
        ELSE [ok |-> TRUE, val |-> cy.saved[cy.idx + 1], parts |-> <<>>,
              state |-> [cy EXCEPT !.inner = IF cy.replay THEN cy.inner ELSE r.state,
                                   !.replay = TRUE,
                                   !.idx = (cy.idx + 1) % Len(cy.saved)]]

\* --------------------------------------------------------- frame functions
\* A frame function with its bound arguments is the finite sequence of frames
\* that each invocation yields afresh; all frames of one function have one shape.
Row(c, w) == Repeat(<<c>>, w)
MkFrame(c, w, h) == Join(<<NL>>, [i \in 1..h |-> Row(c, w)])

FrameFunctionsOfShape(n, w, h) ==
    {[i \in 1..n |-> MkFrame(g[i], w, h)] : g \in [1..n -> Glyphs]}

FrameFunctions ==
    UNION {FrameFunctionsOfShape(s[1], s[2], s[3]) :
               s \in (0..MaxFrames) \X (0..MaxWidth) \X (1..MaxHeight)}

\* ------------------------------------------------------- animation engine
\* A first frame that defaults to the empty string (next(gen, '')).
FirstFrame_Default(animation_func) ==
    [ok  |-> TRUE,
     val |-> IF Len(animation_func) = 0 THEN <<>> ELSE animation_func[1]]

\* animation.py _get_back_up_generator: next(animation_func(*args, **kwargs)) on
\* a fresh invocation; ok = FALSE is the StopIteration of a generator that
\* yields nothing.
FirstFrame(animation_func) ==
    LET g == Gen(animation_func, FALSE)
    IN  [ok  |-> GenHasNext(g),
         val |-> IF GenHasNext(g) THEN GenPeek(g) ELSE <<>>]

\* A backup of as many cursor-ups as the frame has lines.
GetBackUpGenerator_FullHeight(animation_func) ==
    LET lines  == Split(FirstFrame(animation_func).val)
        width  == Len(lines[1])
        height == Len(lines)
    IN  IF height = 1 THEN BACKSPACE_GEN(width) ELSE BACKLINE_GEN(height + 1)

\* animation.py _get_back_up_generator, for a frame function that yields a frame
GetBackUpGenerator(animation_func) ==
    LET lines  == Split(FirstFrame(animation_func).val)
        width  == Len(lines[1])
        height == Len(lines)
    IN  IF height = 1 THEN BACKSPACE_GEN(width) ELSE BACKLINE_GEN(height)

\* A reset that rebuilds the generator only when there is none yet.
AnimReset_Stale(a) ==
    IF a.current_generator.none
    THEN [a EXCEPT !.current_generator =
             Cycle(Concatechain(<<Gen(a.animation_func, FALSE),
                                  a.back_up_generator>>, <<>>))]
    ELSE a

\* A reset whose new generator lost the frame that was pulled to measure it.
AnimReset_SkipFirst(a) ==
    [a EXCEPT !.current_generator =
        Cycle(Concatechain(<<GenAdvance(Gen(a.animation_func, FALSE)),
                             a.back_up_generator>>, <<>>))]

\* A reset that also forgets the frame drawn last.
AnimReset_ClearsFrame(a) ==
    [a EXCEPT !.current_generator =
                  Cycle(Concatechain(<<Gen(a.animation_func, FALSE),
                                       a.back_up_generator>>, <<>>)),
              !.current_frame = <<>>]

\* animation.py _Animation.reset
AnimReset(a) ==
    [a EXCEPT !.current_generator =
        Cycle(Concatechain(<<Gen(a.animation_func, FALSE),
                             a.back_up_generator>>, <<>>))]

\* animation.py _Animation.__call__ (and __init__ of the instance it returns)
AnimCall(animation_func) ==
    LET self == AnimReset([animation_func    |-> animation_func,
                           current_generator |-> NoneGenerator,
                           back_up_generator |-> GetBackUpGenerator(animation_func),
                           current_frame     |-> <<>>])
    IN  [self EXCEPT !.current_frame = <<>>]

\* animation.py _Animation.__next__ : [ok, val, anim]; ok = FALSE is StopIteration
AnimNext(a) ==
    LET r == CycleNext(a.current_generator)
    IN  [ok    |-> r.ok,
         val   |-> r.val,
         anim  |-> IF r.ok
                   THEN [a EXCEPT !.current_generator = r.state,
                                  !.current_frame = r.val]
                   ELSE [a EXCEPT !.current_generator = r.state]]

\* animation.py _Animation.get_erase_frame
GetEraseFrame(a) ==
    LET lines  == Split(a.current_frame)
        width  == Len(lines[1])
        height == Len(lines)
        line   == Repeat(<<SPACE>>, width)
    IN  IF height = 1
        THEN line \o Repeat(BACKSPACE, width)
        ELSE Join(<<NL>>, [i \in 1..height |-> line]) \o Repeat(BACKLINE, height - 1)

\* ------------------------------------------------ direct use of an instance
NoAnimation ==
    [animation_func    |-> <<>>,
     current_generator |-> NoneGenerator,
     back_up_generator |-> Gen(<<>>, FALSE),
     current_frame     |-> <<>>]

NoMultiLine == [frame_function |-> Gen(<<>>, FALSE), height |-> 0, offset |-> 0]
NoOutcome == [how |-> "none", val |-> "none"]
NoFunction == [kind |-> "none", layers |-> <<>>]
NoSupervisor == [err |-> "none", supervisor |-> "none", args |-> <<>>]
NoSnap    == [pc |-> "none", draws |-> 0]
NoDecorator == [deco |-> "none", via |-> "none", start_msg |-> <<"None">>,
                end_msg |-> <<"None">>, start_no_nl |-> FALSE, func |-> NoFunction]
NoCall    == [args |-> <<>>, res |-> NoOutcome]
Values    == {"v1", "v2"}             \* what the work function may return
Errors    == {"e1", "e2"}             \* what the work function may raise

Init ==
    /\ anim = NoAnimation
    /\ inst = "none"
    /\ ops = <<>>
    /\ ret = <<>>
    /\ kind = "none"
    /\ sup_pc = "idle"
    /\ outcome = NoOutcome
    /\ result = NoOutcome
    /\ event = FALSE
    /\ sets = 0
    /\ loop_pc = "none"
    /\ frame = <<>>
    /\ draws = 0
    /\ out = <<>>
    /\ runs = 0
    /\ at_settle = FALSE
    /\ at_set = NoSnap
    /\ prev_draws = 0
    /\ chain = Concatechain(<<>>, <<>>)
    /\ chain_pc = "none"
    /\ yielded = <<>>
    /\ ml_args = NoMultiLine
    /\ ml_gen = Concatechain(<<>>, <<>>)
    /\ ml_pc = "none"
    /\ ml_out = <<>>
    /\ fobj = NoFunction
    /\ dec_err = "none"
    /\ sup = NoSupervisor
    /\ call_pc = "idle"
    /\ level = 0
    /\ call_res = NoOutcome
    /\ trace = <<>>
    /\ applied = NoDecorator
    /\ call_args = <<>>
    /\ sup_calls = <<>>
    /\ func_got = NoCall

\* animation.py animation/wrapper -> _Animation.__call__: next() on a frame
\* function that yields nothing raises StopIteration out of the call.
Instantiate ==
    /\ inst = "none"
    /\ \E ff \in FrameFunctions :
          IF ~FirstFrame(ff).ok
          THEN inst' = "StopIteration" /\ anim' = anim
          ELSE inst' = "ok" /\ anim' = AnimCall(ff)
    /\ UNCHANGED <<libVars, ops, ret, supVars, loopVars>>

\* next(animation) called directly
DoNext ==
    /\ inst = "ok" /\ Len(ops) < MaxOps
    /\ LET r == AnimNext(anim)
       IN  /\ r.ok
           /\ anim' = r.anim
           /\ ret' = r.val
    /\ ops' = Append(ops, "next")
    /\ UNCHANGED <<libVars, inst, supVars, loopVars>>

\* animation.reset() called directly
DoReset ==
    /\ inst = "ok" /\ Len(ops) < MaxOps
    /\ anim' = AnimReset(anim)
    /\ ops' = Append(ops, "reset")
    /\ UNCHANGED <<libVars, inst, ret, supVars, loopVars>>

\* animation.get_erase_frame() called directly
DoGetEraseFrame ==
    /\ inst = "ok" /\ Len(ops) < MaxOps
    /\ ret' = GetEraseFrame(anim)
    /\ ops' = Append(ops, "erase")
    /\ UNCHANGED <<libVars, anim, inst, supVars, loopVars>>

NextAnim == Instantiate \/ DoNext \/ DoReset \/ DoGetEraseFrame

SpecAnim == Init /\ [][NextAnim]_vars

\* ------------------------------------------------------------- supervisors
\* util.py _sync_supervisor / _async_supervisor up to the call of func: the pool
\* and the Event are created and animate_cli is submitted to the pool.
StartRun ==
    /\ inst = "ok"
    /\ sup_pc \in {"idle", "returned", "raised"}
    /\ runs < MaxRuns
    /\ \E k \in {"sync", "async"} : kind' = k
    /\ sup_pc' = "work"
    /\ outcome' = NoOutcome
    /\ result' = NoOutcome
    /\ event' = FALSE
    /\ sets' = 0
    /\ runs' = runs + 1
    /\ at_settle' = FALSE
    /\ at_set' = NoSnap
    /\ prev_draws' = draws
    /\ loop_pc' = "sleep"
    /\ frame' = <<>>
    /\ draws' = 0
    /\ out' = <<>>
    /\ UNCHANGED <<libVars, animVars>>

\* util.py _async_supervisor: result = await func(...) suspends
AsyncSuspend ==
    /\ kind = "async" /\ sup_pc = "work"
    /\ sup_pc' = "suspended"
    /\ UNCHANGED <<libVars, animVars, loopVars, kind, outcome, result, event, sets, runs, at_settle, at_set, prev_draws>>

\* util.py _async_supervisor: the awaited func is resumed
AsyncResume ==
    /\ kind = "async" /\ sup_pc = "suspended"
    /\ sup_pc' = "work"
    /\ UNCHANGED <<libVars, animVars, loopVars, kind, outcome, result, event, sets, runs, at_settle, at_set, prev_draws>>

\* func(*args, **kwargs) returns a value
WorkReturn ==
    /\ sup_pc = "work"
    /\ \E v \in Values : outcome' = [how |-> "return", val |-> v]
    /\ sup_pc' = "settled"
    /\ at_settle' = (draws >= 1)
    /\ UNCHANGED <<libVars, animVars, loopVars, kind, result, event, sets, runs, at_set, prev_draws>>

\* func(*args, **kwargs) raises
WorkRaise ==
    /\ sup_pc = "work"
    /\ \E e \in Errors : outcome' = [how |-> "raise", val |-> e]
    /\ sup_pc' = "settled"
    /\ at_settle' = (draws >= 1)
    /\ UNCHANGED <<libVars, animVars, loopVars, kind, result, event, sets, runs, at_set, prev_draws>>

\* event.set() both in the except clause and in the finally clause
TerminatingEventExit_SetTwice ==
    /\ sup_pc = "settled"
    /\ event' = TRUE
    /\ sets' = sets + (IF outcome.how = "raise" THEN 2 ELSE 1)
    /\ sup_pc' = "shutdown"
    /\ at_set' = [pc |-> loop_pc, draws |-> draws]
    /\ UNCHANGED <<libVars, animVars, loopVars, kind, outcome, result, runs, at_settle, prev_draws>>

\* A context manager that leaves without setting its event.
TerminatingEventExit_NoSet ==
    /\ sup_pc = "settled"
    /\ sup_pc' = "shutdown"
    /\ at_set' = [pc |-> loop_pc, draws |-> draws]
    /\ UNCHANGED <<libVars, animVars, loopVars, kind, outcome, result, event, sets, runs, at_settle, prev_draws>>

\* util.py _terminating_event: finally: event.set()
TerminatingEventExit ==
    /\ sup_pc = "settled"
    /\ event' = TRUE
    /\ sets' = sets + 1
    /\ sup_pc' = "shutdown"
    /\ at_set' = [pc |-> loop_pc, draws |-> draws]
    /\ UNCHANGED <<libVars, animVars, loopVars, kind, outcome, result, runs, at_settle, prev_draws>>

\* The pool is shut down without waiting for its worker (shutdown(wait=False)).
PoolShutdown_NoWait ==
    /\ sup_pc = "shutdown"
    /\ result' = outcome
    /\ sup_pc' = IF outcome.how = "return" THEN "returned" ELSE "raised"
    /\ UNCHANGED <<libVars, animVars, loopVars, kind, outcome, event, sets, runs, at_settle, at_set, prev_draws>>

\* The pool is shut down by a call after func, which an error of func skips.
PoolShutdown_SkipOnError ==
    /\ sup_pc = "shutdown"
    /\ outcome.how = "raise" \/ loop_pc \in {"done", "failed"}
    /\ result' = outcome
    /\ sup_pc' = IF outcome.how = "return" THEN "returned" ELSE "raised"
    /\ UNCHANGED <<libVars, animVars, loopVars, kind, outcome, event, sets, runs, at_settle, at_set, prev_draws>>

\* The asynchronous supervisor does not block its event loop on the worker.
PoolShutdown_AsyncNoWait ==
    /\ sup_pc = "shutdown"
    /\ kind = "async" \/ loop_pc \in {"done", "failed"}
    /\ result' = outcome
    /\ sup_pc' = IF outcome.how = "return" THEN "returned" ELSE "raised"
    /\ UNCHANGED <<libVars, animVars, loopVars, kind, outcome, event, sets, runs, at_settle, at_set, prev_draws>>

\* A supervisor that asks the future of the submitted loop for its result, and
\* so raises what the loop raised.
PoolShutdown_RetrievesFuture ==
    /\ sup_pc = "shutdown"
    /\ loop_pc \in {"done", "failed"}
    /\ result' = IF loop_pc = "failed"
                 THEN [how |-> "raise", val |-> "WriteError"]
                 ELSE outcome
    /\ sup_pc' = IF loop_pc = "done" /\ outcome.how = "return"
                 THEN "returned" ELSE "raised"
    /\ UNCHANGED <<libVars, animVars, loopVars, kind, outcome, event, sets, runs, at_settle, at_set, prev_draws>>

\* ThreadPoolExecutor.__exit__ (shutdown(wait=True)) joins the worker thread; then
\* run returns result, or the error of func goes on to the caller.
PoolShutdown ==
    /\ sup_pc = "shutdown"
    /\ loop_pc \in {"done", "failed"}
    /\ result' = outcome
    /\ sup_pc' = IF outcome.how = "return" THEN "returned" ELSE "raised"
    /\ UNCHANGED <<libVars, animVars, loopVars, kind, outcome, event, sets, runs, at_settle, at_set, prev_draws>>

\* ------------------------------------------------------------- render loop
\* A loop that tests the event before each tick (while not event.is_set(): ...).
LoopSleep_CheckFirst ==
    /\ loop_pc = "sleep"
    /\ draws < MaxDraws \/ event
    /\ loop_pc' = IF event THEN "erase" ELSE "next"
    /\ UNCHANGED <<libVars, animVars, supVars, frame, draws, out>>

\* cli.py animate_cli: time.sleep(step).  While the work is executing the model
\* lets the loop start at most MaxDraws ticks.
LoopSleep ==
    /\ loop_pc = "sleep"
    /\ draws < MaxDraws \/ event
    /\ loop_pc' = "next"
    /\ UNCHANGED <<libVars, animVars, supVars, frame, draws, out>>

\* cli.py animate_cli: frame = next(animation_)
LoopPull ==
    /\ loop_pc = "next"
    /\ LET r == AnimNext(anim)
       IN  /\ anim' = r.anim
           /\ frame' = IF r.ok THEN r.val ELSE frame
           /\ loop_pc' = IF r.ok THEN "write" ELSE "failed"
    /\ UNCHANGED <<libVars, inst, ops, ret, supVars, draws, out>>

\* cli.py animate_cli: sys.stdout.write(frame)
LoopWrite ==
    /\ loop_pc = "write"
    /\ out' = Append(out, [op |-> "write", s |-> frame])
    /\ draws' = draws + 1
    /\ loop_pc' = "flush"
    /\ UNCHANGED <<libVars, animVars, supVars, frame>>

\* cli.py animate_cli: sys.stdout.flush()
LoopFlush ==
    /\ loop_pc = "flush"
    /\ out' = Append(out, [op |-> "flush", s |-> <<>>])
    /\ loop_pc' = "check"
    /\ UNCHANGED <<libVars, animVars, supVars, frame, draws>>

\* A loop that tests the event only after every second frame.
LoopCheck_EveryOtherTick ==
    /\ loop_pc = "check"
    /\ loop_pc' = IF event /\ draws % 2 = 0 THEN "erase" ELSE "sleep"
    /\ UNCHANGED <<libVars, animVars, supVars, frame, draws, out>>

\* A loop that returns as soon as it sees the event set, without its cleanup.
LoopCheck_ExitsAtOnce ==
    /\ loop_pc = "check"
    /\ loop_pc' = IF event THEN "done" ELSE "sleep"
    /\ UNCHANGED <<libVars, animVars, supVars, frame, draws, out>>

\* cli.py animate_cli: if event.is_set(): break
LoopCheck ==
    /\ loop_pc = "check"
    /\ loop_pc' = IF event THEN "erase" ELSE "sleep"
    /\ UNCHANGED <<libVars, animVars, supVars, frame, draws, out>>

\* cli.py animate_cli: sys.stdout.write(animation_.get_erase_frame())
LoopEraseWrite ==
    /\ loop_pc = "erase"
    /\ out' = Append(out, [op |-> "erase", s |-> GetEraseFrame(anim)])
    /\ loop_pc' = "eraseflush"
    /\ UNCHANGED <<libVars, animVars, supVars, frame, draws>>

\* The erase frame is left unflushed.
LoopEraseFlush_NoFlush ==
    /\ loop_pc = "eraseflush"
    /\ loop_pc' = "reset"
    /\ UNCHANGED <<libVars, animVars, supVars, frame, draws, out>>

\* cli.py animate_cli: the second sys.stdout.flush()
LoopEraseFlush ==
    /\ loop_pc = "eraseflush"
    /\ out' = Append(out, [op |-> "flush", s |-> <<>>])
    /\ loop_pc' = "reset"
    /\ UNCHANGED <<libVars, animVars, supVars, frame, draws>>

\* The loop ends without resetting the animation.
LoopReset_KeepsPhase ==
    /\ loop_pc = "reset"
    /\ out' = Append(out, [op |-> "reset", s |-> <<>>])
    /\ loop_pc' = "done"
    /\ UNCHANGED <<libVars, animVars, supVars, frame, draws>>

\* cli.py animate_cli: animation_.reset()
LoopReset ==
    /\ loop_pc = "reset"
    /\ anim' = AnimReset(anim)
    /\ out' = Append(out, [op |-> "reset", s |-> <<>>])
    /\ loop_pc' = "done"
    /\ UNCHANGED <<libVars, inst, ops, ret, supVars, frame, draws>>

Next ==
    \/ Instantiate
    \/ StartRun
    \/ AsyncSuspend
    \/ AsyncResume
    \/ WorkReturn
    \/ WorkRaise
    \/ TerminatingEventExit
    \/ PoolShutdown
    \/ LoopSleep
    \/ LoopPull
    \/ LoopWrite
    \/ LoopFlush
    \/ LoopCheck
    \/ LoopEraseWrite
    \/ LoopEraseFlush
    \/ LoopReset

Spec == Init /\ [][Next]_vars

\* A loop that erases and resets on its way out also when a statement raised
\* (try: ... finally: ...).
LoopRaise_CleansUp(stmt) ==
    /\ out' = out \o <<[op |-> "raise", s |-> <<stmt>>],
                       [op |-> "erase", s |-> GetEraseFrame(anim)],
                       [op |-> "flush", s |-> <<>>],
                       [op |-> "reset", s |-> <<>>]>>
    /\ anim' = AnimReset(anim)
    /\ loop_pc' = "failed"
    /\ UNCHANGED <<libVars, inst, ops, ret, supVars, frame, draws>>

\* ------------------------------------------------- failures in the render loop
\* animate_cli catches nothing: when a statement of it raises, the call ends
\* there.  The pool's worker stores the error in the future of the submitted
\* call, which neither supervisor ever looks at, and stays joinable.  The record
\* put on out names the statement that raised.
LoopRaise(stmt) ==
    /\ out' = Append(out, [op |-> "raise", s |-> <<stmt>>])
    /\ loop_pc' = "failed"
    /\ UNCHANGED <<libVars, animVars, supVars, frame, draws>>

\* cli.py animate_cli: frame = next(animation_) raises (the frame function does)
LoopPullFails ==
    /\ loop_pc = "next"
    /\ LoopRaise("next")

\* cli.py animate_cli: sys.stdout.write(frame) raises
LoopWriteFails ==
    /\ loop_pc = "write"
    /\ LoopRaise("write")

\* cli.py animate_cli: sys.stdout.flush() raises
LoopFlushFails ==
    /\ loop_pc = "flush"
    /\ LoopRaise("flush")

\* cli.py animate_cli: sys.stdout.write(animation_.get_erase_frame()) raises
LoopEraseWriteFails ==
    /\ loop_pc = "erase"
    /\ LoopRaise("erase")

\* cli.py animate_cli: the second sys.stdout.flush() raises
LoopEraseFlushFails ==
    /\ loop_pc = "eraseflush"
    /\ LoopRaise("eraseflush")

\* The frame functions of the runs in which the loop may fail: a spinner of two
\* one-line frames and one of two two-line frames
Spinners == {<<MkFrame("a", 1, 1), MkFrame("b", 1, 1)>>,
             <<MkFrame("a", 1, 2), MkFrame("b", 1, 2)>>}

\* animation.py _Animation.__call__ for one of these frame functions
InstantiateSpinner ==
    /\ inst = "none"
    /\ \E ff \in Spinners : inst' = "ok" /\ anim' = AnimCall(ff)
    /\ UNCHANGED <<libVars, ops, ret, supVars, loopVars>>

NextFault ==
    \/ InstantiateSpinner
    \/ StartRun
    \/ AsyncSuspend
    \/ AsyncResume
    \/ WorkReturn
    \/ WorkRaise
    \/ TerminatingEventExit
    \/ PoolShutdown
    \/ LoopSleep
    \/ LoopPull
    \/ LoopWrite
    \/ LoopFlush
    \/ LoopCheck
    \/ LoopEraseWrite
    \/ LoopEraseFlush
    \/ LoopReset
    \/ LoopPullFails
    \/ LoopWriteFails
    \/ LoopFlushFails
    \/ LoopEraseWriteFails
    \/ LoopEraseFlushFails

SpecFault == Init /\ [][NextFault]_vars

\* ----------------------------------------------------------- fair scheduling
\* The next statement of animate_cli on the pool's worker thread, which may
\* complete or raise
LoopStep ==
    \/ LoopSleep
    \/ LoopPull
    \/ LoopWrite
    \/ LoopFlush
    \/ LoopCheck
    \/ LoopEraseWrite
    \/ LoopEraseFlush
    \/ LoopReset
    \/ LoopPullFails
    \/ LoopWriteFails
    \/ LoopFlushFails
    \/ LoopEraseWriteFails
    \/ LoopEraseFlushFails

\* The next step of the supervisor once the work has settled: leaving the with
\* block of _terminating_event, then that of the pool
SupervisorExit ==
    \/ TerminatingEventExit
    \/ PoolShutdown

\* The worker thread and the supervisor's thread both get to run; nothing is
\* assumed of the work function.
SpecLive ==
    /\ Init
    /\ [][NextFault]_vars
    /\ WF_vars(LoopStep)
    /\ WF_vars(SupervisorExit)

\* ------------------------------------------------ direct use of concatechain
Items      == {<<"a">>, <<"b">>}       \* the strings a source may yield
Separators == {<<>>, <<NL>>}           \* the separator argument

RECURSIVE SeqsUpTo(_, _)
\* The sequences over S of length at most n.
SeqsUpTo(S, n) ==
    IF n = 0 THEN {<<>>}
    ELSE LET shorter == SeqsUpTo(S, n - 1)
         IN  shorter \cup {Append(q, x) : q \in shorter, x \in S}

\* The generators a caller may hand over: finite ones and itertools.cycle ones.
Sources == {Gen(items, cyc) : items \in SeqsUpTo(Items, MaxItems), cyc \in BOOLEAN}

\* util.py concatechain(*generators, separator=...) is called
ChainCall ==
    /\ chain_pc = "none"
    /\ \E gens \in SeqsUpTo(Sources, MaxSources) \ {<<>>}, sep \in Separators :
          chain' = Concatechain(gens, sep)
    /\ chain_pc' = "live"
    /\ yielded' = <<>>
    /\ UNCHANGED <<progVars, mlVars, decoVars>>

\* next() on the concatechain generator
ChainNext ==
    /\ chain_pc = "live"
    /\ Len(yielded) < MaxPulls
    /\ LET r == ConcatechainNext(chain)
       IN  /\ chain' = r.state
           /\ yielded' = IF r.ok THEN Append(yielded, r.val) ELSE yielded
           /\ chain_pc' = IF r.ok THEN "live" ELSE "stopped"
    /\ UNCHANGED <<progVars, mlVars, decoVars>>

NextChain == ChainCall \/ ChainNext

SpecChain == Init /\ [][NextChain]_vars

\* ----------------------------------------------- multi_line_frame_generator
\* The single-line frame functions: finite ones and endless (cycled) ones.
RowFunctions ==
    {Gen(items, cyc) : items \in SeqsUpTo(Items, MaxRowFrames), cyc \in BOOLEAN}

RECURSIVE AdvanceBy(_, _)
\* n times g.__next__(): [ok, gen]; ok = FALSE when one of them raised StopIteration
AdvanceBy(g, n) ==
    IF n = 0 THEN [ok |-> TRUE, gen |-> g]
    ELSE IF ~GenHasNext(g) THEN [ok |-> FALSE, gen |-> g]
    ELSE AdvanceBy(GenAdvance(g), n - 1)

\* Rows that are all advanced by the same offset.
MultiLineRows_SameOffset(frame_function, height, offset) ==
    LET rows == [i \in 1..height |->
                    AdvanceBy(frame_function, IF i = 1 THEN 0 ELSE offset)]
    IN  [ok   |-> \A i \in 1..height : rows[i].ok,
         gens |-> [i \in 1..height |-> rows[i].gen]]

\* decorator.py multi_line_frame_generator, the for loop: height invocations of
\* frame_function, the i-th (from 0) advanced i * offset times.
MultiLineRows(frame_function, height, offset) ==
    LET rows == [i \in 1..height |-> AdvanceBy(frame_function, (i - 1) * offset)]
    IN  [ok   |-> \A i \in 1..height : rows[i].ok,
         gens |-> [i \in 1..height |-> rows[i].gen]]

\* What a StopIteration raised inside the generator's body turns into: a
\* RuntimeError where the interpreter enforces PEP 479 (Python 3.7 and later),
\* the plain end of the generator before that.
BodyStopIteration == {"RuntimeError", "stopped"}

\* multi_line_frame_generator(frame_function, height, offset) is called: a
\* generator object is made, its body has not started.
MultiLineCall ==
    /\ ml_pc = "none"
    /\ \E ff \in RowFunctions, height \in 0..MaxRows, offset \in 0..MaxOffset :
          ml_args' = [frame_function |-> ff, height |-> height, offset |-> offset]
    /\ ml_pc' = "created"
    /\ UNCHANGED <<progVars, chainVars, decoVars, ml_gen, ml_out>>

\* The first next(): the body builds and advances the rows, then yields from
\* concatechain(*frame_generators, separator='\n').
MultiLineFirstNext ==
    /\ ml_pc = "created"
    /\ LET rows == MultiLineRows(ml_args.frame_function, ml_args.height,
                                 ml_args.offset)
           r    == ConcatechainNext(Concatechain(rows.gens, <<NL>>))
       IN  IF ~rows.ok
           THEN /\ ml_pc' \in BodyStopIteration
                /\ UNCHANGED <<ml_gen, ml_out>>
           ELSE /\ ml_gen' = r.state
                /\ ml_out' = IF r.ok THEN Append(ml_out, r.val) ELSE ml_out
                /\ ml_pc' = IF r.ok THEN "live" ELSE "stopped"
    /\ UNCHANGED <<progVars, chainVars, decoVars, ml_args>>

\* A generator that raises when a row runs out while the rows are joined.
MultiLineNext_RaisesOnExhaustion ==
    /\ ml_pc = "live"
    /\ Len(ml_out) < MaxPulls
    /\ LET r == ConcatechainNext(ml_gen)
       IN  /\ ml_gen' = r.state
           /\ ml_out' = IF r.ok THEN Append(ml_out, r.val) ELSE ml_out
           /\ ml_pc' = IF r.ok THEN "live" ELSE "RuntimeError"
    /\ UNCHANGED <<progVars, chainVars, decoVars, ml_args>>

\* A later next(): yield from frame_gen
MultiLineNext ==
    /\ ml_pc = "live"
    /\ Len(ml_out) < MaxPulls
    /\ LET r == ConcatechainNext(ml_gen)
       IN  /\ ml_gen' = r.state
           /\ ml_out' = IF r.ok THEN Append(ml_out, r.val) ELSE ml_out
           /\ ml_pc' = IF r.ok THEN "live" ELSE "stopped"
    /\ UNCHANGED <<progVars, chainVars, decoVars, ml_args>>

NextMultiLine == MultiLineCall \/ MultiLineFirstNext \/ MultiLineNext

SpecMultiLine == Init /\ [][NextMultiLine]_vars

\* ------------------------------------------------------------- decorators
\* A function object is a plain object of some kind ("def": a function, "async
\* def": a coroutine function, "int": something that is not callable, "None":
\* Python's None) and the
\* wrappers that decorators have put on it, innermost first.
None       == <<"None">>               \* Python's None
NotAString == <<"int">>                \* a value that is neither None nor a str
StartMsgs  == {None, <<>>, <<"A">>, NotAString}
EndMsgs    == {None, <<>>, <<"B">>, NotAString}

PlainFunctions == {[kind |-> k, layers |-> <<>>] : k \in {"def", "async def", "int", "None"}}

\* callable(func)
IsCallable(func) == func.kind \in {"def", "async def"} \/ Len(func.layers) > 0

\* asyncio.iscoroutinefunction(func)
IsCoroutineFunction(func) ==
    IF Len(func.layers) = 0
    THEN func.kind = "async def"
    ELSE func.layers[Len(func.layers)].coroutine

\* hasattr(func, ANNOTATED) and getattr(func, ANNOTATED): Annotate's wrappers set
\* the attribute, and functools.wraps copies it to every wrapper put on top.
IsAnnotated(func) ==
    \E k \in DOMAIN func.layers : func.layers[k].deco = "annotate"

\* The function that wrapper k of func wraps
Wrapped(func, k) == [func EXCEPT !.layers = SubSeq(func.layers, 1, k - 1)]

\* bool(msg) for a message that is None or a str
Truthy(msg) == msg # None /\ msg # <<>>

\* A get_supervisor that always takes the synchronous supervisor.
GetSupervisor_AlwaysSync(func) ==
    IF ~IsCallable(func)
    THEN [err |-> "TypeError", supervisor |-> "none", args |-> <<>>]
    ELSE [err |-> "none", supervisor |-> "_sync_supervisor", args |-> <<func>>]

\* util.py get_supervisor: functools.partial(supervisor, func)
GetSupervisor(func) ==
    IF ~IsCallable(func)
    THEN [err |-> "TypeError", supervisor |-> "none", args |-> <<>>]
    ELSE [err        |-> "none",
          supervisor |-> IF IsCoroutineFunction(func)
                         THEN "_async_supervisor"
                         ELSE "_sync_supervisor",
          args       |-> <<func>>]

\* An Annotate.__init__ that does not look at the types of its messages.
AnnotateInit_NoTypeCheck(start_msg, end_msg, start_no_nl) ==
    IF start_msg = None /\ end_msg = None THEN "ValueError" ELSE "none"

\* decorator.py Annotate.__init__: the error it raises, "none" if it does not
AnnotateInit(start_msg, end_msg, start_no_nl) ==
    IF start_msg = None /\ end_msg = None THEN "ValueError"
    ELSE IF start_msg = NotAString \/ end_msg = NotAString THEN "TypeError"
    ELSE "none"

\* decorator.py Annotate.__call__ -> _sync_call / _async_call: the wrapper
AnnotateCall(start_msg, end_msg, start_no_nl, func) ==
    [func EXCEPT !.layers =
        Append(func.layers, [deco        |-> "annotate",
                             coroutine   |-> IsCoroutineFunction(func),
                             start_msg   |-> start_msg,
                             end_msg     |-> end_msg,
                             start_no_nl |-> start_no_nl])]

\* An animate whose wrapper is always a plain function.
AnimateWrapper_Plain(deco, func) ==
    [func EXCEPT !.layers =
        Append(func.layers, [deco        |-> deco,
                             coroutine   |-> FALSE,
                             start_msg   |-> None,
                             end_msg     |-> None,
                             start_no_nl |-> FALSE])]

\* The wrapper that animate puts on func; deco is "animate" for a wrapper of
\* decorator.py, which constructs _Animate when it is called, and "Animate" for
\* an instance of core.py's class Animate, which is not a coroutine function.
AnimateWrapper(deco, func) ==
    [func EXCEPT !.layers =
        Append(func.layers, [deco        |-> deco,
                             coroutine   |-> deco = "animate"
                                             /\ IsCoroutineFunction(func),
                             start_msg   |-> None,
                             end_msg     |-> None,
                             start_no_nl |-> FALSE])]

\* decorator.py _Animate.__init__ / core.py Animate.__init__: the error raised
AnimateInit(func) ==
    IF ~IsCallable(func) THEN "TypeError"
    ELSE IF IsAnnotated(func) THEN "TypeError"
    ELSE "none"

\* An animate that takes whatever is not callable for a missing func.
AnimateApply_NoCallableCheck(via, func) ==
    IF via = "core" /\ AnimateInit(func) # "none"
    THEN [err |-> AnimateInit(func), func |-> func]
    ELSE IF ~IsCallable(func) /\ via = "no_kwargs"
    THEN [err |-> "none", func |-> func]
    ELSE [err |-> "none",
          func |-> AnimateWrapper(IF via = "core" THEN "Animate" ELSE "animate",
                                  func)]

\* Applying animate to func: [err, func].  via = "no_kwargs" is animate(func)
\* (decorator.py animate -> _animate_no_kwargs), "with_kwargs" is
\* animate(animation=..., step=...)(func) (_animate_with_kwargs -> outer), "core"
\* is core.py's Animate(func, animation_gen=...).
AnimateApply(via, func) ==
    IF via = "no_kwargs"
    THEN IF IsCallable(func)
         THEN [err |-> "none", func |-> AnimateWrapper("animate", func)]
         ELSE IF func.kind = "None"
         THEN [err |-> "none", func |-> func]
         ELSE [err |-> "TypeError", func |-> func]
    ELSE IF via = "with_kwargs"
    THEN [err |-> "none", func |-> AnimateWrapper("animate", func)]
    ELSE IF AnimateInit(func) # "none"
    THEN [err |-> AnimateInit(func), func |-> func]
    ELSE [err |-> "none", func |-> AnimateWrapper("Animate", func)]

\* What reaches stdout: print(msg) writes msg and a newline
Write(s)     == [ev |-> "write", s |-> s]
Flush        == [ev |-> "flush", s |-> <<>>]
PyPrint(msg) == <<Write(msg \o <<NL>>)>>

\* decorator.py Annotate._start_print
StartPrint(layer) ==
    IF layer.start_no_nl THEN <<Write(layer.start_msg), Flush>>
    ELSE PyPrint(layer.start_msg)

\* decorator.py _sync_call / _async_call, wrapper: what is written before func
\* is called.  The asynchronous wrapper prints with print.
AnnotateBefore(layer) ==
    IF ~Truthy(layer.start_msg) THEN <<>>
    ELSE IF layer.coroutine THEN PyPrint(layer.start_msg)
    ELSE StartPrint(layer)

\* decorator.py _sync_call / _async_call, wrapper: what is written after func
\* has returned
AnnotateAfter(layer) ==
    IF Truthy(layer.end_msg) THEN PyPrint(layer.end_msg) ELSE <<>>

\* A plain function is defined
Define ==
    /\ fobj = NoFunction
    /\ \E f \in PlainFunctions : fobj' = f
    /\ UNCHANGED <<progVars, chainVars, mlVars, dec_err, sup, call_pc, level,
                   call_res, trace, applied, call_args, sup_calls, func_got>>

\* annotate(start_msg=..., end_msg=..., start_no_nl=...) is constructed and, if
\* that raised nothing, applied to fobj
Annotate ==
    /\ fobj # NoFunction /\ call_pc = "idle" /\ dec_err = "none"
    /\ sup = NoSupervisor
    /\ Len(fobj.layers) < MaxLayers
    /\ \E start_msg \in StartMsgs, end_msg \in EndMsgs, start_no_nl \in BOOLEAN :
          /\ dec_err' = AnnotateInit(start_msg, end_msg, start_no_nl)
          /\ fobj' = IF AnnotateInit(start_msg, end_msg, start_no_nl) = "none"
                     THEN AnnotateCall(start_msg, end_msg, start_no_nl, fobj)
                     ELSE fobj
          /\ applied' = [deco |-> "annotate", via |-> "none",
                         start_msg |-> start_msg, end_msg |-> end_msg,
                         start_no_nl |-> start_no_nl, func |-> fobj]
    /\ UNCHANGED <<progVars, chainVars, mlVars, sup, call_pc, level, call_res, trace,
                   call_args, sup_calls, func_got>>

\* asyncio.coroutine(wrapper), which animate calls for a coroutine function:
\* interpreters up to Python 3.10 return the wrapper marked as a coroutine
\* function, later ones have no asyncio.coroutine and raise AttributeError.
AsyncioCoroutine == {"marked", "AttributeError"}

\* animate is applied to fobj
Animate ==
    /\ fobj # NoFunction /\ call_pc = "idle" /\ dec_err = "none"
    /\ sup = NoSupervisor
    /\ Len(fobj.layers) < MaxLayers
    /\ \E via \in {"no_kwargs", "with_kwargs", "core"}, py \in AsyncioCoroutine :
          /\ IF via # "core" /\ IsCoroutineFunction(fobj) /\ py = "AttributeError"
             THEN dec_err' = "AttributeError" /\ fobj' = fobj
             ELSE /\ dec_err' = AnimateApply(via, fobj).err
                  /\ fobj' = AnimateApply(via, fobj).func
          /\ applied' = [NoDecorator EXCEPT !.deco = "animate", !.via = via,
                                            !.func = fobj]
    /\ UNCHANGED <<progVars, chainVars, mlVars, sup, call_pc, level, call_res, trace,
                   call_args, sup_calls, func_got>>

\* get_supervisor(fobj) is called directly
DoGetSupervisor ==
    /\ fobj # NoFunction /\ call_pc = "idle" /\ dec_err = "none"
    /\ sup = NoSupervisor
    /\ sup' = GetSupervisor(fobj)
    /\ UNCHANGED <<progVars, chainVars, mlVars, fobj, dec_err, call_pc, level,
                   call_res, trace, applied, call_args, sup_calls, func_got>>

\* The positional arguments a call may give
CallArgs == {<<>>, <<"x">>}

\* fobj(*args, **kwargs) is called (and awaited, if that gives a coroutine)
CallBegin ==
    /\ IsCallable(fobj) /\ call_pc = "idle" /\ dec_err = "none"
    /\ sup = NoSupervisor
    /\ call_pc' = "down"
    /\ level' = Len(fobj.layers)
    /\ \E args \in CallArgs : call_args' = args
    /\ UNCHANGED <<progVars, chainVars, mlVars, fobj, dec_err, sup, call_res, trace,
                   applied, sup_calls, func_got>>

\* The call enters an Annotate wrapper: the start message, then func(...)
EnterAnnotate ==
    /\ call_pc = "down" /\ level >= 1
    /\ fobj.layers[level].deco = "annotate"
    /\ trace' = trace \o AnnotateBefore(fobj.layers[level])
    /\ level' = level - 1
    /\ UNCHANGED <<progVars, chainVars, mlVars, fobj, dec_err, sup, call_pc, call_res,
                   applied, call_args, sup_calls, func_got>>

\* A wrapper of animate that obtains and invokes a supervisor twice.
EnterAnimate_ObtainsTwice ==
    /\ call_pc = "down" /\ level >= 1
    /\ fobj.layers[level].deco \in {"animate", "Animate"}
    /\ LET func == Wrapped(fobj, level)
           err  == IF fobj.layers[level].deco = "animate"
                   THEN AnimateInit(func) ELSE "none"
           call == [sup  |-> GetSupervisor(func),
                    args |-> <<"animation", "step">> \o call_args,
                    res  |-> NoOutcome]
       IN  IF err # "none"
           THEN /\ call_res' = [how |-> "raise", val |-> err]
                /\ call_pc' = "up"
                /\ level' = level + 1
                /\ UNCHANGED <<sup, trace, sup_calls>>
           ELSE /\ sup' = GetSupervisor(func)
                /\ sup_calls' = sup_calls \o <<call, call>>
                /\ trace' = Append(trace, [ev |-> "supervise", s |-> <<>>])
                /\ level' = level - 1
                /\ UNCHANGED <<call_res, call_pc>>
    /\ UNCHANGED <<progVars, chainVars, mlVars, fobj, dec_err, applied, call_args,
                   func_got>>

\* The call enters a wrapper of animate: decorator.py's wrapper constructs
\* _Animate(func=func, ...), which may raise; then __call__ gets the supervisor,
\* which calls func.
EnterAnimate ==
    /\ call_pc = "down" /\ level >= 1
    /\ fobj.layers[level].deco \in {"animate", "Animate"}
    /\ LET func == Wrapped(fobj, level)
           err  == IF fobj.layers[level].deco = "animate"
                   THEN AnimateInit(func) ELSE "none"
       IN  IF err # "none"
           THEN /\ call_res' = [how |-> "raise", val |-> err]
                /\ call_pc' = "up"
                /\ level' = level + 1
                /\ UNCHANGED <<sup, trace, sup_calls>>
           ELSE /\ sup' = GetSupervisor(func)
                /\ sup_calls' = Append(sup_calls,
                                   [sup  |-> GetSupervisor(func),
                                    args |-> <<"animation", "step">> \o call_args,
                                    res  |-> NoOutcome])
                /\ trace' = Append(trace, [ev |-> "supervise", s |-> <<>>])
                /\ level' = level - 1
                /\ UNCHANGED <<call_res, call_pc>>
    /\ UNCHANGED <<progVars, chainVars, mlVars, fobj, dec_err, applied, call_args,
                   func_got>>

\* The plain function runs: it returns or raises; calling what is not callable
\* raises TypeError
RunFunction ==
    /\ call_pc = "down" /\ level = 0
    /\ IF fobj.kind \in {"int", "None"}
       THEN /\ call_res' = [how |-> "raise", val |-> "TypeError"]
            /\ trace' = trace
            /\ func_got' = func_got
       ELSE /\ \/ \E v \in Values : call_res' = [how |-> "return", val |-> v]
               \/ \E e \in Errors : call_res' = [how |-> "raise", val |-> e]
            /\ trace' = Append(trace, [ev |-> "func", s |-> <<>>])
            /\ func_got' = [args |-> call_args, res |-> call_res']
    /\ call_pc' = "up"
    /\ level' = 1
    /\ UNCHANGED <<progVars, chainVars, mlVars, fobj, dec_err, sup, applied,
                   call_args, sup_calls>>

\* The supervisor invocation that has not settled yet and was made last
LastOpen(calls) ==
    CHOOSE i \in DOMAIN calls :
        /\ calls[i].res = NoOutcome
        /\ \A j \in DOMAIN calls : calls[j].res = NoOutcome => j <= i

\* A wrapper of Annotate that prints its end message however func settled
\* (try: ... finally: ...).
Leave_PrintsAlways ==
    /\ call_pc = "up" /\ level <= Len(fobj.layers)
    /\ trace' = IF fobj.layers[level].deco = "annotate"
                THEN trace \o AnnotateAfter(fobj.layers[level])
                ELSE trace
    /\ sup_calls' = IF fobj.layers[level].deco \in {"animate", "Animate"}
                    THEN [sup_calls EXCEPT ![LastOpen(sup_calls)].res = call_res]
                    ELSE sup_calls
    /\ level' = level + 1
    /\ UNCHANGED <<progVars, chainVars, mlVars, fobj, dec_err, sup, call_pc, call_res,
                   applied, call_args, func_got>>

\* func(...) has returned or raised into wrapper `level`: Annotate's wrapper
\* prints the end message after a return; an error goes on through every
\* wrapper; the wrapper of animate returns what its supervisor returned
Leave ==
    /\ call_pc = "up" /\ level <= Len(fobj.layers)
    /\ trace' = IF fobj.layers[level].deco = "annotate" /\ call_res.how = "return"
                THEN trace \o AnnotateAfter(fobj.layers[level])
                ELSE trace
    /\ sup_calls' = IF fobj.layers[level].deco \in {"animate", "Animate"}
                    THEN [sup_calls EXCEPT ![LastOpen(sup_calls)].res = call_res]
                    ELSE sup_calls
    /\ level' = level + 1
    /\ UNCHANGED <<progVars, chainVars, mlVars, fobj, dec_err, sup, call_pc, call_res,
                   applied, call_args, func_got>>

\* The outermost wrapper is done
CallEnd ==
    /\ call_pc = "up" /\ level > Len(fobj.layers)
    /\ call_pc' = IF call_res.how = "return" THEN "returned" ELSE "raised"
    /\ UNCHANGED <<progVars, chainVars, mlVars, fobj, dec_err, sup, level, call_res,
                   trace, applied, call_args, sup_calls, func_got>>

NextDeco ==
    \/ Define
    \/ Annotate
    \/ Animate
    \/ DoGetSupervisor
    \/ CallBegin
    \/ EnterAnnotate
    \/ EnterAnimate
    \/ RunFunction
    \/ Leave
    \/ CallEnd

SpecDeco == Init /\ [][NextDeco]_vars

\* ------------------------------------------------------------ vocabulary
Running == {"sleep", "next", "write", "flush", "check"}
Stopping == {"erase", "eraseflush", "reset"}
Stopped == "done"
Delivered == {"returned", "raised"}
Executing == {"work", "suspended"}

CountOut(op) == Cardinality({i \in DOMAIN out : out[i].op = op})

\* The frames of the instance's frame function, each followed by the backup string.
BackupString == GenPeek(anim.back_up_generator)
ComposedFrames ==
    {anim.animation_func[i] \o BackupString : i \in DOMAIN anim.animation_func}

\* The direct calls made on the instance.
LastOp == IF Len(ops) = 0 THEN "none" ELSE ops[Len(ops)]
CountOps(op) == Cardinality({i \in DOMAIN ops : ops[i] = op})
\* The last reset() before call i (0: none), and the next() calls among calls a+1..b.
ResetBefore(i) ==
    IF \A j \in DOMAIN ops : j < i => ops[j] # "reset" THEN 0
    ELSE CHOOSE j \in DOMAIN ops :
             /\ j < i /\ ops[j] = "reset"
             /\ \A k \in DOMAIN ops : k > j /\ k < i => ops[k] # "reset"
NextsIn(a, b) == Cardinality({i \in DOMAIN ops : a < i /\ i <= b /\ ops[i] = "next"})
NextsSinceReset == NextsIn(ResetBefore(Len(ops) + 1), Len(ops))
LastNextAt ==
    CHOOSE i \in DOMAIN ops :
        ops[i] = "next" /\ \A j \in DOMAIN ops : j > i => ops[j] # "next"

\* The k-th frame (k >= 1) that the frame function's sequence gives when cycled.
CycledFrame(k) ==
    anim.animation_func[((k - 1) % Len(anim.animation_func)) + 1]

\* The plain frame that the last next() drew (there has been a next()).
LastDrawn == CycledFrame(NextsIn(ResetBefore(LastNextAt), LastNextAt))

FrameWidth(f)  == Len(Split(f)[1])
FrameHeight(f) == Len(Split(f))

\* Whitespace of height h and width n, followed by the matching backup.
ErasureOfShape(n, h) ==
    IF h = 1
    THEN Repeat(<<SPACE>>, n) \o Repeat(BACKSPACE, n)
    ELSE Join(<<NL>>, [i \in 1..h |-> Repeat(<<SPACE>>, n)]) \o Repeat(BACKLINE, h - 1)

\* The loop's record of the run ends: last frame, flush, erase frame, flush, reset.
CleanupDone ==
    /\ Len(out) >= 5
    /\ out[Len(out) - 4].op = "write"
    /\ out[Len(out) - 3].op = "flush"
    /\ out[Len(out) - 2].op = "erase"
    /\ out[Len(out) - 1].op = "flush"
    /\ out[Len(out)].op = "reset"
    /\ CountOut("erase") = 1
    /\ CountOut("reset") = 1

\* --------------------------------------------------------------- claims
\* C1: when the work function of the synchronous supervisor returns V, run returns
\* exactly V; at that moment the render loop is Stopped, having written the erase
\* frame and reset the animation, and it writes nothing while run stays returned.
C1_SyncReturnAfterStopped ==
    /\ [](kind = "sync" /\ sup_pc = "returned"
            => /\ outcome.how = "return"
               /\ result = outcome
               /\ loop_pc = Stopped
               /\ CleanupDone)
    /\ [][kind = "sync" /\ sup_pc = "returned" /\ sup_pc' = "returned"
            => out' = out /\ draws' = draws /\ loop_pc' = loop_pc]_vars

\* A synchronous run has returned "v2" after the loop drew at least two frames.
C1_Witness ==
    /\ kind = "sync" /\ sup_pc = "returned"
    /\ result = [how |-> "return", val |-> "v2"]
    /\ draws >= 2

\* C2: when the work function raises E, under either supervisor, run raises that
\* same E, and only after the event is set and the render loop has written the
\* erase frame and reset the animation.
C2_RaiseAfterCleanup ==
    sup_pc = "raised"
        => /\ outcome.how = "raise"
           /\ result = outcome
           /\ event
           /\ loop_pc = Stopped
           /\ CleanupDone

\* A run has raised "e2" to its caller after the loop drew at least two frames.
C2_Witness ==
    /\ sup_pc = "raised"
    /\ result = [how |-> "raise", val |-> "e2"]
    /\ draws >= 2

\* C3: the render loop has pulled and written at least one frame whenever it tests
\* the event, and so whenever it has left Running, also when the event was set
\* before the loop's first tick.
C3_DrawBeforeObserve ==
    loop_pc \in {"check"} \cup Stopping \cup {Stopped}
        => /\ draws >= 1
           /\ Len(out) >= 1
           /\ out[1].op = "write"
           /\ out[1].s \in ComposedFrames

\* The event was set before the loop's first tick, and the loop still drew a frame.
C3_Witness ==
    /\ at_set = [pc |-> "sleep", draws |-> 0]
    /\ loop_pc = Stopped
    /\ draws = 1
    /\ out[1].op = "write"

\* C4: after the loop has observed the event it writes the erase frame once, after
\* the last drawn frame, flushes, and then resets the animation once, in that
\* order; no frame is written after the erase frame.
C4_EraseFlushReset ==
    /\ CountOut("erase") <= 1
    /\ CountOut("reset") <= 1
    /\ \A i, j \in DOMAIN out : out[i].op = "erase" /\ i < j => out[j].op # "write"
    /\ loop_pc \in Running => CountOut("erase") = 0 /\ CountOut("reset") = 0
    /\ loop_pc = "eraseflush"
          => /\ out[Len(out)].op = "erase"
             /\ out[Len(out)].s = GetEraseFrame(anim)
             /\ out[Len(out) - 1].op = "flush"
             /\ out[Len(out) - 2] = [op |-> "write", s |-> frame]
    /\ loop_pc = "reset"
          => /\ out[Len(out)].op = "flush"
             /\ out[Len(out) - 1].op = "erase"
             /\ CountOut("reset") = 0
    /\ loop_pc = Stopped => CleanupDone

\* The loop has stopped after drawing at least two frames.
C4_Witness ==
    /\ loop_pc = Stopped
    /\ draws >= 2
    /\ CountOut("erase") = 1

\* C5: in every run event.set() is called exactly once and not while the work
\* function is executing, so the render loop stays Running for as long as it is.
C5_SetOnceAfterSettle ==
    /\ sets <= 1
    /\ event <=> sets = 1
    /\ sup_pc \in Executing \cup {"settled"} => sets = 0
    /\ sup_pc \in Executing => loop_pc \in Running
    /\ sup_pc \in {"shutdown"} \cup Delivered => sets = 1

\* A run has delivered; the event was set once, after the loop had drawn frames
\* for as long as the work executed.
C5_Witness ==
    /\ sup_pc \in Delivered
    /\ sets = 1
    /\ at_set.draws >= 2

\* C6: under the asynchronous supervisor the event is set exactly once, after the
\* awaited work settled, and the loop has written the erase frame and reset the
\* animation before run delivers its result or error.
C6_AsyncCleanupBeforeDelivery ==
    kind = "async"
        => /\ sets <= 1
           /\ sup_pc \in Executing \cup {"settled"} => sets = 0 /\ ~event
           /\ sup_pc \in Delivered
                 => /\ sets = 1
                    /\ result = outcome
                    /\ loop_pc = Stopped
                    /\ CleanupDone

\* An asynchronous run has delivered its result; the loop drew while the work was
\* still being awaited.
C6_Witness ==
    /\ kind = "async"
    /\ sup_pc \in Delivered
    /\ at_settle
    /\ loop_pc = Stopped

\* C7: once next() has been called, get_erase_frame() returns whitespace of the
\* shape of the plain frame last drawn, then the matching backup: N spaces and N
\* backspaces for one line of width N; H lines of N spaces and H-1 cursor-ups for
\* height H > 1.
C7_EraseFrameHasFrameShape ==
    LastOp = "erase" /\ CountOps("next") >= 1
        => ret = ErasureOfShape(FrameWidth(LastDrawn), FrameHeight(LastDrawn))

\* C8: after each next() the frame recorded for erasing is the plain frame that
\* the frame function produced, and next() returned that frame followed by the
\* backup string.
C8_LastFrameIsPlain ==
    LastOp = "next"
        => /\ anim.current_frame = LastDrawn
           /\ ret = LastDrawn \o BackupString

\* C9: on an instance that was never reset, the k-th next() (k counted from 0)
\* returns frame k mod n of the frame function's n frames followed by the backup
\* string; measuring the first frame at instantiation consumed nothing.
C9_KthNextIsFrameKModN ==
    LastOp = "next" /\ CountOps("reset") = 0
        => ret = CycledFrame(CountOps("next")) \o BackupString

\* Three next() calls on a two-frame function: the third wraps around.
C9_Witness ==
    /\ ops = <<"next", "next", "next">>
    /\ Len(anim.animation_func) = 2
    /\ anim.animation_func[1] # anim.animation_func[2]
    /\ ret = anim.animation_func[1] \o BackupString

\* C10: reset() followed by next() returns what the first next() returns on a
\* freshly instantiated animation of the same frame function and arguments.
C10_ResetThenNextIsFresh ==
    LastOp = "next" /\ CountOps("reset") >= 1 /\ NextsSinceReset = 1
        => ret = AnimNext(AnimCall(anim.animation_func)).val

\* A reset in the middle of a cycle of two different frames, then next().
C10_Witness ==
    /\ ops = <<"next", "reset", "next">>
    /\ Len(anim.animation_func) = 2
    /\ anim.animation_func[1] # anim.animation_func[2]

\* C11: a supervised run that follows a completed run on the same animation
\* instance writes as its first frame the first frame of the frame function
\* followed by the backup string, however many frames the previous run drew.
C11_NextRunStartsAtFirstFrame ==
    runs >= 2 /\ Len(out) >= 1
        => out[1] = [op |-> "write", s |-> anim.animation_func[1] \o BackupString]

\* The previous run stopped in the middle of a cycle of two different frames,
\* and the second run has written its first frame.
C11_Witness ==
    /\ runs = 2
    /\ prev_draws = 1
    /\ Len(anim.animation_func) = 2
    /\ anim.animation_func[1] # anim.animation_func[2]
    /\ draws >= 1
    /\ out[1].op = "write"

\* The backup string that fits a frame: as many backspaces as its first line is
\* wide when it has one line, otherwise one cursor-up less than it has lines.
BackupFor(f) ==
    IF FrameHeight(f) = 1
    THEN Repeat(BACKSPACE, FrameWidth(f))
    ELSE Repeat(BACKLINE, FrameHeight(f) - 1)

\* C12: the backup string of an instance is the one that fits the first frame of
\* its frame function, it does not change with next() or reset(), and every
\* next(), before and after a reset(), returns a frame followed by that string.
C12_BackupFixedAtInstantiation ==
    inst = "ok"
        => /\ BackupString = BackupFor(anim.animation_func[1])
           /\ anim.back_up_generator.cyc
           /\ Len(anim.back_up_generator.items) = 1
           /\ LastOp = "next" => ret = LastDrawn \o BackupFor(anim.animation_func[1])

\* A two-line animation: a frame was drawn before a reset and another after it.
C12_Witness ==
    /\ inst = "ok"
    /\ FrameHeight(anim.animation_func[1]) = 2
    /\ FrameWidth(anim.animation_func[1]) = 2
    /\ ops = <<"next", "next", "reset", "next">>
    /\ ret = anim.animation_func[1] \o BACKLINE

\* C13: instantiating an animation whose frame function yields no frame raises
\* an error out of the instantiation and leaves no instance: every instance there
\* is has a frame function that yields at least one frame.
C13_EmptyFrameFunctionFails ==
    /\ inst \in {"none", "ok", "StopIteration"}
    /\ inst = "ok" => Len(anim.animation_func) >= 1
    /\ inst # "ok" => anim = NoAnimation /\ ops = <<>>

\* An instantiation has raised StopIteration.
C13_Witness ==
    /\ inst = "StopIteration"
    /\ anim = NoAnimation

\* The sources a concatechain was called with, and how many values each yields
\* (more than MaxPulls stands for endlessly many).
ChainSources == [i \in DOMAIN chain.generators |-> chain.generators[i].items]
SourceLen(i) ==
    IF chain.generators[i].cyc /\ Len(ChainSources[i]) > 0
    THEN MaxPulls + 1
    ELSE Len(ChainSources[i])
\* The j-th value (j >= 1) of source i
SourceItem(i, j) ==
    IF chain.generators[i].cyc
    THEN ChainSources[i][((j - 1) % Len(ChainSources[i])) + 1]
    ELSE ChainSources[i][j]
ShortestSource ==
    CHOOSE m \in {SourceLen(i) : i \in DOMAIN ChainSources} :
        \A i \in DOMAIN ChainSources : m <= SourceLen(i)

\* C14: the j-th value a concatechain generator yields is the j-th values of all
\* its sources joined by the separator in source order; it never yields more
\* values than its shortest source has, and when it stops it has yielded exactly
\* that many, so no join of only some sources is ever yielded.
C14_ConcatechainJoinsUntilShortestEnds ==
    chain_pc # "none"
        => /\ Len(yielded) <= ShortestSource
           /\ \A j \in DOMAIN yielded :
                 yielded[j] = Join(chain.separator,
                                   [i \in DOMAIN ChainSources |-> SourceItem(i, j)])
           /\ chain_pc = "stopped" => Len(yielded) = ShortestSource

\* Two sources joined by a newline; the second is the shorter one and ran out
\* after one joined value, while a value of the first had already been pulled.
C14_Witness ==
    /\ chain_pc = "stopped"
    /\ Len(ChainSources) = 2
    /\ chain.separator = <<NL>>
    /\ ChainSources[1] = <<<<"a">>, <<"b">>>>
    /\ ~chain.generators[1].cyc
    /\ ChainSources[2] = <<<<"b">>>>
    /\ ~chain.generators[2].cyc
    /\ chain.generators[1].pos = 2
    /\ yielded = <<<<"a", NL, "b">>>>

\* The k-th frame (k >= 1) of the frame function given to
\* multi_line_frame_generator, and how many frames one invocation yields (more
\* than any frame number in use stands for endlessly many).
RowFrame(k) ==
    LET f == ml_args.frame_function
    IN  IF f.cyc THEN f.items[((k - 1) % Len(f.items)) + 1] ELSE f.items[k]
RowFrames ==
    LET f == ml_args.frame_function
    IN  IF f.cyc /\ Len(f.items) > 0
        THEN MaxPulls + MaxRows * MaxOffset + 1
        ELSE Len(f.items)
\* The frame number (from 1) that row i (from 1) shows at step j (from 1)
RowFrameAt(i, j) == j + (i - 1) * ml_args.offset

\* C15: the generator holds height invocations of the frame function, and the
\* frame it yields at step j is, row by row, the frame j + i * offset of the frame
\* function for row i (steps and rows counted from 0), joined by newlines.
C15_RowsArePhaseShifted ==
    /\ ml_pc = "live"
          => /\ Len(ml_gen.generators) = ml_args.height
             /\ \A i \in 1..ml_args.height :
                   /\ ml_gen.generators[i].items = ml_args.frame_function.items
                   /\ ml_gen.generators[i].cyc = ml_args.frame_function.cyc
    /\ \A j \in DOMAIN ml_out :
          /\ \A i \in 1..ml_args.height : RowFrameAt(i, j) <= RowFrames
          /\ ml_out[j] = Join(<<NL>>, [i \in 1..ml_args.height |->
                                          RowFrame(RowFrameAt(i, j))])

\* Offset 2 and height 3 on the frames a, a, b, b, a: the first frame yielded
\* shows the frame function's frames 0, 2 and 4.
C15_Witness ==
    /\ ml_args.offset = 2
    /\ ml_args.height = 3
    /\ ml_args.frame_function = Gen(<<<<"a">>, <<"a">>, <<"b">>, <<"b">>, <<"a">>>>, FALSE)
    /\ ml_out = <<<<"a", NL, "b", NL, "a">>>>

\* A row runs out of frames while it is advanced by its phase offset, and the
\* number of steps at which every row still has a frame otherwise.
AdvanceExhausted ==
    \E i \in 1..ml_args.height : (i - 1) * ml_args.offset > RowFrames
CompleteSteps ==
    IF ml_args.height = 0 THEN MaxPulls + 1
    ELSE LET left == {RowFrames - (i - 1) * ml_args.offset : i \in 1..ml_args.height}
         IN  CHOOSE m \in left : \A n \in left : m <= n

\* C16 as stated: once a row source has run out of frames, be it while it was
\* advanced or while the rows were joined, the generator has raised an error.
C16_ExhaustionRaises ==
    ml_pc \notin {"none", "created"} /\ (AdvanceExhausted \/ ml_pc = "stopped")
        => ml_pc = "RuntimeError"

\* C16, amended: a row that runs out while the rows are joined ends the generator
\* as a concatechain ends, without an error, after every complete frame and no
\* partial one; a row that runs out while it is advanced ends the generator at
\* its first next() before any frame, with a RuntimeError where a StopIteration in
\* a generator body becomes one and without an error otherwise.
C16_ExhaustionEndsIteration ==
    ml_pc \notin {"none", "created"}
        => /\ AdvanceExhausted
                 => ml_pc \in {"RuntimeError", "stopped"} /\ ml_out = <<>>
           /\ ~AdvanceExhausted
                 => /\ ml_pc \in {"live", "stopped"}
                    /\ Len(ml_out) <= CompleteSteps
                    /\ ml_pc = "stopped" => Len(ml_out) = CompleteSteps

\* Two rows of a three-frame function, the second one frame ahead: it ran out
\* in the third join, and the generator ended without an error after two frames.
C16_Witness ==
    /\ ml_pc = "stopped"
    /\ ml_args.height = 2
    /\ ml_args.offset = 1
    /\ ml_args.frame_function = Gen(<<<<"a">>, <<"b">>, <<"a">>>>, FALSE)
    /\ Len(ml_out) = 2

\* A call of fobj has gone past the outermost wrapper's start message.
InsideCall ==
    \/ call_pc = "down" /\ level < Len(fobj.layers)
    \/ call_pc \in {"up", "returned", "raised"}

\* fobj is a plain function with one Annotate wrapper on it.
AnnotatedOnce ==
    /\ Len(fobj.layers) = 1
    /\ fobj.layers[1].deco = "annotate"
    /\ fobj.kind \in {"def", "async def"}

RECURSIVE Written(_)
\* The text that the write events of a trace put on stdout
Written(t) ==
    IF Len(t) = 0 THEN <<>>
    ELSE (IF t[1].ev = "write" THEN t[1].s ELSE <<>>) \o Written(Tail(t))

\* The part of the trace before the plain function ran (all of it if it did not)
BeforeFunc ==
    IF \A i \in DOMAIN trace : trace[i].ev # "func" THEN trace
    ELSE SubSeq(trace, 1, (CHOOSE i \in DOMAIN trace : trace[i].ev = "func") - 1)

\* C17: get_supervisor(func) returns the asynchronous supervisor if func is a
\* coroutine function and the synchronous one if it is not, with func bound as
\* its one argument.
C17_SupervisorFollowsCoroutineStatus ==
    sup # NoSupervisor /\ sup.err = "none"
        => /\ sup.supervisor \in {"_sync_supervisor", "_async_supervisor"}
           /\ Len(sup.args) = 1
           /\ sup.supervisor = "_async_supervisor" <=> IsCoroutineFunction(sup.args[1])
           /\ call_pc = "idle" => sup.args = <<fobj>>
           /\ call_pc # "idle"
                 => \E k \in DOMAIN fobj.layers :
                        /\ fobj.layers[k].deco \in {"animate", "Animate"}
                        /\ sup.args = <<Wrapped(fobj, k)>>

\* get_supervisor was called on a coroutine function and gave the asynchronous
\* supervisor with that function bound.
C17_Witness ==
    /\ call_pc = "idle"
    /\ fobj.kind = "async def"
    /\ sup = [err |-> "none", supervisor |-> "_async_supervisor", args |-> <<fobj>>]

\* C18: applying animate to a function that Annotate has wrapped raises an error
\* then and there, so no function object is ever an animate wrapper on an
\* annotated function.
C18_AnimateOnAnnotatedFailsAtDecoration ==
    \A k \in DOMAIN fobj.layers :
        fobj.layers[k].deco \in {"animate", "Animate"}
            => ~IsAnnotated(Wrapped(fobj, k))

\* C19: one call of a synchronous function wrapped by annotate(start_msg=A,
\* end_msg=B), once it has returned, has written A and a newline, then run the
\* function, then written B and a newline, and nothing else; a message that is
\* not given (None) is left out.
C19_AnnotateWritesAroundCall ==
    (/\ AnnotatedOnce
     /\ ~fobj.layers[1].coroutine
     /\ ~fobj.layers[1].start_no_nl
     /\ call_pc = "returned")
        => trace = (IF fobj.layers[1].start_msg = None THEN <<>>
                    ELSE <<Write(fobj.layers[1].start_msg \o <<NL>>)>>)
                   \o <<[ev |-> "func", s |-> <<>>]>>
                   \o (IF fobj.layers[1].end_msg = None THEN <<>>
                       ELSE <<Write(fobj.layers[1].end_msg \o <<NL>>)>>)

\* C20: with start_no_nl = TRUE, what a call of the wrapper, synchronous or
\* asynchronous, has written before the wrapped function runs is the start
\* message and no newline.
C20_StartWithoutNewline ==
    (/\ AnnotatedOnce
     /\ fobj.layers[1].start_no_nl
     /\ Truthy(fobj.layers[1].start_msg)
     /\ InsideCall)
        => Written(BeforeFunc) = fobj.layers[1].start_msg

\* ---------------------------------------------------------------------- C21
\* C21: constructing annotate with neither a start_msg nor an end_msg raises
\* ValueError; with a start_msg or an end_msg that is neither None nor a string
\* it raises TypeError; either error comes from the constructor: the function
\* has not been wrapped, nothing has been written and no call has begun.
C21_AnnotateValidatesAtConstruction ==
    applied.deco = "annotate" =>
        /\ (applied.start_msg = None /\ applied.end_msg = None)
               => dec_err = "ValueError"
        /\ (applied.start_msg = NotAString \/ applied.end_msg = NotAString)
               => dec_err = "TypeError"
        /\ dec_err # "none"
               => fobj = applied.func /\ trace = <<>> /\ call_pc = "idle"

\* annotate(start_msg='A', end_msg=5) has raised TypeError
C21_Witness ==
    /\ applied.deco = "annotate"
    /\ applied.start_msg = <<"A">> /\ applied.end_msg = NotAString
    /\ dec_err = "TypeError"
    /\ IsCallable(applied.func)

\* ---------------------------------------------------------------------- C22
\* C22: get_supervisor(x) raises TypeError for every x that is not callable, and
\* animate(func=x) raises TypeError for every x that is neither None nor
\* callable; both happen when the call is made, before any decorated function
\* is called, and animate has then wrapped nothing.
C22_NonCallableRaisesTypeError ==
    /\ (sup # NoSupervisor /\ call_pc = "idle" /\ ~IsCallable(fobj))
           => sup = [err |-> "TypeError", supervisor |-> "none", args |-> <<>>]
    /\ (/\ applied.deco = "animate" /\ applied.via = "no_kwargs"
        /\ ~IsCallable(applied.func) /\ applied.func.kind # "None")
           => /\ dec_err = "TypeError"
              /\ fobj = applied.func
              /\ call_pc = "idle" /\ trace = <<>>

\* get_supervisor(5) has raised TypeError
C22_Witness ==
    /\ fobj = [kind |-> "int", layers |-> <<>>]
    /\ call_pc = "idle"
    /\ sup.err = "TypeError"

\* ---------------------------------------------------------------------- C23
\* C23: whenever animate, applied directly or through its keyword arguments,
\* returns a wrapper of a function, that wrapper is a coroutine function if and
\* only if the function it wraps is one.
C23_AnimateKeepsCoroutineStatus ==
    (/\ applied.deco = "animate" /\ applied.via \in {"no_kwargs", "with_kwargs"}
     /\ dec_err = "none"
     /\ fobj # applied.func)
        => /\ Wrapped(fobj, Len(fobj.layers)) = applied.func
           /\ IsCoroutineFunction(fobj) <=> IsCoroutineFunction(applied.func)

\* animate(step=...)(f) for a coroutine function f has returned a coroutine
\* function
C23_Witness ==
    /\ applied.deco = "animate" /\ applied.via = "with_kwargs"
    /\ dec_err = "none"
    /\ applied.func = [kind |-> "async def", layers |-> <<>>]
    /\ Len(fobj.layers) = 1
    /\ IsCoroutineFunction(fobj)

\* ---------------------------------------------------------------------- C24
\* C24: a finished call of a function whose outermost decorator is animate
\* (put on a function that _Animate accepts) has obtained a supervisor for the
\* function animate was applied to exactly once, has invoked it exactly once
\* with (animation, step, *call args), and has settled the way that supervisor
\* did; where the plain function ran, it received the call's arguments.
C24_OneSupervisorPerCall ==
    (/\ call_pc \in {"returned", "raised"}
     /\ Len(fobj.layers) >= 1
     /\ fobj.layers[Len(fobj.layers)].deco = "animate"
     /\ AnimateInit(Wrapped(fobj, Len(fobj.layers))) = "none")
        => LET func == Wrapped(fobj, Len(fobj.layers))
               mine == {i \in DOMAIN sup_calls : sup_calls[i].sup.args = <<func>>}
           IN  /\ Len(sup_calls) >= 1
               /\ Cardinality(mine) = 1
               /\ sup_calls[1].sup = GetSupervisor(func)
               /\ sup_calls[1].args = <<"animation", "step">> \o call_args
               /\ call_res = sup_calls[1].res
               /\ func_got # NoCall => func_got.args = call_args

\* a call f('x') of an animated coroutine function has returned f's value
C24_Witness ==
    /\ call_pc = "returned"
    /\ fobj.kind = "async def" /\ Len(fobj.layers) = 1
    /\ fobj.layers[1].deco = "animate"
    /\ call_args = <<"x">>
    /\ Len(sup_calls) = 1
    /\ sup_calls[1].sup.supervisor = "_async_supervisor"
    /\ call_res = func_got.res

\* ---------------------------------------------------------------------- C25
\* C25: when a statement of the render loop has raised, run still delivers what
\* the work function did: it returns the value the work returned, or raises the
\* error the work raised, and never the failure of the loop.
C25_LoopFailureStaysOutOfOutcome ==
    (sup_pc \in Delivered /\ loop_pc = "failed")
        => /\ result = outcome
           /\ sup_pc = "returned" <=> outcome.how = "return"
           /\ outcome.how = "return" => outcome.val \in Values
           /\ outcome.how = "raise" => outcome.val \in Errors

\* sys.stdout.write(frame) raised in the loop, and run returned the work's "v1"
C25_Witness ==
    /\ sup_pc = "returned"
    /\ loop_pc = "failed"
    /\ out[Len(out)] = [op |-> "raise", s |-> <<"write">>]
    /\ result = [how |-> "return", val |-> "v1"]

\* ---------------------------------------------------------------------- C26
\* C26: a run has one render loop, started with it; the loop is Running for as
\* long as the work has not settled, is Stopping only once the event is set and
\* a frame is drawn, and is Stopped when run delivers, under either supervisor
\* and whether the work returned or raised; what was written during the run is
\* then the record of one loop: its frames, each flushed, then one erase frame,
\* one flush and one reset.
C26_OneLoopThroughItsPhases ==
    /\ sup_pc = "idle" <=> loop_pc = "none"
    /\ sup_pc \in Executing \cup {"settled"} => loop_pc \in Running
    /\ loop_pc \in Running => CountOut("erase") = 0 /\ CountOut("reset") = 0
    /\ loop_pc \in Stopping => event /\ draws >= 1 /\ CountOut("reset") = 0
    /\ sup_pc \in Delivered
          => /\ loop_pc = Stopped
             /\ draws >= 1
             /\ Len(out) = 2 * draws + 3
             /\ \A i \in 1..draws : /\ out[2 * i - 1].op = "write"
                                    /\ out[2 * i].op = "flush"
             /\ out[2 * draws + 1].op = "erase"
             /\ out[2 * draws + 2].op = "flush"
             /\ out[2 * draws + 3].op = "reset"

\* The second run on an instance, an asynchronous one whose work raised, has
\* delivered; its loop drew two frames
C26_Witness ==
    /\ runs = 2
    /\ kind = "async" /\ sup_pc = "raised"
    /\ loop_pc = Stopped
    /\ draws = 2
    /\ Len(out) = 7

\* ---------------------------------------------------------------------- C27
\* C27: once the work function has returned or raised, run returns or raises
\* in the end, provided the worker thread and the supervisor get to run and no
\* statement of the loop blocks: the supervisor waits for the worker only with
\* the event set, and the loop, still Running or already failed, then ends.
C27_RunEventuallyReturns ==
    /\ [](sup_pc = "shutdown" => event)
    /\ (sup_pc = "settled") ~> (sup_pc \in Delivered)

\* The work settled before the loop's first tick, and run has delivered after
\* the loop drew its one frame and stopped
C27_Witness ==
    /\ sup_pc \in Delivered
    /\ at_set = [pc |-> "sleep", draws |-> 0]
    /\ ~at_settle
    /\ loop_pc = Stopped
    /\ draws = 1

\* ---------------------------------------------------------------------- C28
\* C28: once the event is set the loop writes at most one more frame, and has
\* written no more than that when it writes the erase frame: one more if the
\* event was set before the tick's write, none if it was set after it.
C28_AtMostOneFrameAfterSet ==
    event => /\ draws <= at_set.draws + 1
             /\ loop_pc \in Stopping \cup {Stopped}
                   => draws = at_set.draws
                              + (IF at_set.pc \in {"sleep", "next", "write"}
                                 THEN 1 ELSE 0)

\* The event was set while the loop slept before its second tick; the loop wrote
\* that tick's frame and then stopped
C28_Witness ==
    /\ event
    /\ at_set = [pc |-> "sleep", draws |-> 1]
    /\ loop_pc = Stopped
    /\ draws = 2
    /\ CountOut("write") = 2

\* ---------------------------------------------------------------------- C29
\* The loop ended because one of the given statements raised
LoopFailedIn(stmts) ==
    /\ loop_pc = "failed"
    /\ \E i \in DOMAIN out : out[i].op = "raise" /\ out[i].s[1] \in stmts

\* C29: the erase frame is written, and the animation reset, only by a loop that
\* saw the event set at the end of a tick; a loop that ended because its frame
\* pull, its write or its flush raised has written no erase frame and has not
\* reset the animation, and the supervisor's wait for the worker still ends, so
\* that run delivers the work's outcome.
C29_CleanupOnlyAfterObservedStop ==
    /\ \A i \in DOMAIN out :
          out[i].op = "erase"
              => /\ event
                 /\ i >= 3
                 /\ out[i - 1].op = "flush" /\ out[i - 2].op = "write"
    /\ \A i \in DOMAIN out :
          out[i].op = "reset"
              => i >= 3 /\ out[i - 1].op = "flush" /\ out[i - 2].op = "erase"
    /\ LoopFailedIn({"next", "write", "flush"})
          => /\ CountOut("erase") = 0
             /\ CountOut("reset") = 0
             /\ sup_pc = "shutdown" => ENABLED PoolShutdown
             /\ sup_pc \in Delivered => result = outcome

\* The frame pull of the second tick raised; run has returned what the work
\* returned, and nothing was erased
C29_Witness ==
    /\ LoopFailedIn({"next"})
    /\ draws = 1
    /\ sup_pc = "returned"
    /\ result = outcome
    /\ CountOut("erase") = 0

\* ---------------------------------------------------------------------- C30
\* C30: reset() gives the instance a new composed sequence and changes nothing
\* else: the frame function with its bound arguments, the backup generator and
\* the recorded last frame stay as they were, so get_erase_frame() is the same
\* before and after it; called right after a reset() it returns the erase frame
\* of the frame that the last next() before the reset returned.
C30_ResetKeepsLastFrame ==
    /\ [][ops' = Append(ops, "reset")
            => /\ anim'.animation_func = anim.animation_func
               /\ anim'.back_up_generator = anim.back_up_generator
               /\ anim'.current_frame = anim.current_frame
               /\ GetEraseFrame(anim') = GetEraseFrame(anim)]_vars
    /\ []((/\ Len(ops) >= 3
           /\ ops[Len(ops)] = "erase" /\ ops[Len(ops) - 1] = "reset"
           /\ ops[Len(ops) - 2] = "next")
             => /\ anim.current_frame = LastDrawn \o BackupString
                /\ ret = GetEraseFrame([anim EXCEPT !.current_frame =
                                                       LastDrawn \o BackupString]))

\* next(), next(), reset(), get_erase_frame() on a two-frame animation of two
\* lines: the erase frame returned is that of the second frame
C30_Witness ==
    /\ ops = <<"next", "next", "reset", "erase">>
    /\ Len(anim.animation_func) = 2
    /\ anim.animation_func[1] # anim.animation_func[2]
    /\ FrameHeight(anim.animation_func[2]) = 2
    /\ FrameWidth(anim.animation_func[2]) = 2
    /\ anim.current_frame = anim.animation_func[2] \o BackupString
    /\ ret = GetEraseFrame(anim)

\* ---------------------------------------------------------------------- C31
\* The wrappers on fobj are all Annotate's, on a function that can be called
AnnotatedOnly ==
    /\ Len(fobj.layers) >= 1
    /\ \A k \in DOMAIN fobj.layers : fobj.layers[k].deco = "annotate"
    /\ fobj.kind \in {"def", "async def"}

\* The wrappers whose start message is set (a non-empty string)
WithStartMsg == {k \in DOMAIN fobj.layers : Truthy(fobj.layers[k].start_msg)}

\* C31: when a function under Annotate wrappers has raised, the call raises that
\* same error; the last thing the call did is the function's run, so that no
\* end message was written; and before that run every wrapper with a start
\* message set had written its message, and nothing else was written.
C31_ErrorSkipsEndMessage ==
    (AnnotatedOnly /\ call_pc = "raised")
        => /\ Len(trace) >= 1
           /\ trace[Len(trace)] = [ev |-> "func", s |-> <<>>]
           /\ call_res.how = "raise" /\ call_res.val \in Errors
           /\ call_res = func_got.res
           /\ \A k \in WithStartMsg :
                 \E i \in DOMAIN BeforeFunc :
                    /\ BeforeFunc[i].ev = "write"
                    /\ Len(BeforeFunc[i].s) >= Len(fobj.layers[k].start_msg)
                    /\ SubSeq(BeforeFunc[i].s, 1, Len(fobj.layers[k].start_msg))
                          = fobj.layers[k].start_msg
           /\ Cardinality({i \in DOMAIN trace : trace[i].ev = "write"})
                 = Cardinality(WithStartMsg)

\* f under annotate(start_msg='A', end_msg='B') raised "e1": 'A' and a newline
\* were written, the call raised "e1", 'B' was not written
C31_Witness ==
    /\ AnnotatedOnly /\ Len(fobj.layers) = 1
    /\ fobj.layers[1].start_msg = <<"A">> /\ fobj.layers[1].end_msg = <<"B">>
    /\ call_pc = "raised"
    /\ call_res = [how |-> "raise", val |-> "e1"]
    /\ trace = <<Write(<<"A", NL>>), [ev |-> "func", s |-> <<>>]>>

\* ---------------------------------------------------------------------- C32
\* The source whose exhaustion stopped the generator: the first, in argument
\* order, that has no more values than were yielded
StoppedBy ==
    CHOOSE i \in DOMAIN ChainSources :
        /\ SourceLen(i) = Len(yielded)
        /\ \A j \in DOMAIN ChainSources : j < i => SourceLen(j) > Len(yielded)

\* Where source i stands after n values were pulled from it
PosAfter(i, n) ==
    IF ~chain.generators[i].cyc THEN n
    ELSE IF Len(ChainSources[i]) = 0 THEN 0
    ELSE n % Len(ChainSources[i])

\* C32: when a concatechain generator has stopped because source i had no next
\* value, every source before i has given one value more than the generator
\* yielded (the value pulled in the stopping step, which is in no yielded join),
\* and source i and every source after it have given exactly as many values as
\* were yielded.
C32_EarlierSourcesLoseOneValue ==
    chain_pc = "stopped"
        => /\ \E i \in DOMAIN ChainSources : SourceLen(i) = Len(yielded)
           /\ \A j \in DOMAIN ChainSources :
                 chain.generators[j].pos =
                     PosAfter(j, IF j < StoppedBy THEN Len(yielded) + 1
                                 ELSE Len(yielded))
           /\ \A j \in DOMAIN ChainSources :
                 j < StoppedBy => SourceLen(j) >= Len(yielded) + 1

\* concatechain(iter(['a', 'b']), iter(['a'])) yielded 'aa' and stopped at its
\* second source; 'b' had been pulled from the first and is lost
C32_Witness ==
    /\ chain_pc = "stopped"
    /\ chain.separator = <<>>
    /\ Len(ChainSources) = 2
    /\ ChainSources[1] = <<<<"a">>, <<"b">>>> /\ ~chain.generators[1].cyc
    /\ ChainSources[2] = <<<<"a">>>> /\ ~chain.generators[2].cyc
    /\ StoppedBy = 2
    /\ yielded = <<<<"a", "a">>>>
    /\ chain.generators[1].pos = 2
    /\ chain.generators[2].pos = 1

====
